---- MODULE Spec2Model ----
(***************************************************************************)
(* Event log / daily aggregate subsystem of the habit tracker backend      *)
(* (src/app.py): POST /events, POST /events/undo, the status queries, the  *)
(* analytics summary and the handlers of the habits table, over the SQLite *)
(* tables habit_logs, daily_agg and habits.                                *)
(*                                                                         *)
(* Time is the UTC wall clock in whole seconds.  A timestamp is the text   *)
(* produced by datetime.isoformat(), modelled as the sequence of its       *)
(* fixed-width fields <<date, second of day>>; SQLite compares these texts *)
(* lexicographically, split("T")[0] and LIKE 'day%' take the date prefix.  *)
(* The clock has the resolution of one second and never runs backwards;   *)
(* two calls may read the same instant.  The server's local date is taken  *)
(* to be the UTC date.  The columns user_uuid and source and the list      *)
(* app.config["events"] are not modelled: no handler reads them.           *)
(***************************************************************************)
EXTENDS Integers, Sequences, FiniteSets, TLC

\* ---------------------------------------------------------------- bounds
\* habit ids in use, events ever recorded, clock advances, concurrent requests
NumHabits == 2
MaxEvents == 2
MaxTicks == 1
NumProcs == 2
\* days of history handed to the streak functions; 'complete' and 'skip'
\* events inside the 30-day window of the completion rate
MaxDays == 5
MaxCompletes == 7
MaxSkips == 3

\* ------------------------------------------------------ program constants
\* window_seconds when the request names none; the length of a UTC day
DefaultWindow == 60
DaySeconds == 86400
\* timedelta(days=29): the first day of the 30-day window, counted back from today
RateWindow == 29

HabitIds == 1..NumHabits
Names == {"Run", "run", "Read"}
EventTypes == {"complete", "skip", "note"}
Windows == {0, DefaultWindow}
Jumps == {DefaultWindow, DaySeconds}
StartTime == DaySeconds - DefaultWindow
Procs == 1..NumProcs
\* Python None / SQL NULL / no row: AUTOINCREMENT ids start at 1
None == 0

VARIABLES
  habit_logs,   \* committed rows of table habit_logs
  daily_agg,    \* committed rows of table daily_agg
  seq,          \* AUTOINCREMENT high-water mark of habit_logs.id
  habits,       \* rows of table habits
  habit_seq,    \* AUTOINCREMENT high-water mark of habits.id
  now,          \* the wall clock, seconds
  last,         \* the last handler run to completion: call, pre-state, response
  conn,         \* per concurrent request: position, arguments, open transaction
  wlock         \* the request holding the database write lock, or None

vars == <<habit_logs, daily_agg, seq, habits, habit_seq, now, last, conn, wlock>>

\* ------------------------------------------------------------- text order
\* datetime.isoformat(): "YYYY-MM-DDTHH:MM:SS" as <<date, second of day>>
isoformat(t) == <<t \div DaySeconds, t % DaySeconds>>

\* timestamp.split("T")[0]: the date text
SplitDay(ts) == SubSeq(ts, 1, 1)

\* date.isoformat() of the current day
TodayStr(t) == SubSeq(isoformat(t), 1, 1)

\* SQLite's BINARY collation on texts: first differing field decides, a
\* proper prefix sorts first
RECURSIVE TextLE(_, _)
TextLE(a, b) ==
  IF a = <<>> THEN TRUE
  ELSE IF b = <<>> THEN FALSE
  ELSE IF Head(a) < Head(b) THEN TRUE
  ELSE IF Head(a) > Head(b) THEN FALSE
  ELSE TextLE(Tail(a), Tail(b))

\* timestamp LIKE 'day%'
LikePrefix(ts, p) == Len(ts) >= Len(p) /\ SubSeq(ts, 1, Len(p)) = p

\* ------------------------------------------------------------ SQL statements
\* INSERT INTO habit_logs (...) VALUES (...): id is assigned by AUTOINCREMENT
InsertLog(logs, id, h, et, ts) ==
  logs \cup {[id |-> id, habit_id |-> h, event_type |-> et, timestamp |-> ts]}

\* variant: INSERT OR REPLACE, which resets an existing row to 0/0
InsertOrReplaceAgg(agg, h, day) ==
  {r \in agg : ~(r.habit_id = h /\ r.day = day)}
    \cup {[habit_id |-> h, day |-> day, completions |-> 0, skips |-> 0]}

\* INSERT OR IGNORE INTO daily_agg (habit_id, day, completions, skips)
\* VALUES (?,?,0,0), under UNIQUE(habit_id, day)
InsertOrIgnoreAgg(agg, h, day) ==
  IF \E r \in agg : r.habit_id = h /\ r.day = day
  THEN agg
  ELSE agg \cup {[habit_id |-> h, day |-> day, completions |-> 0, skips |-> 0]}

\* variant: "else" in place of "elif event_type == 'skip'"
BumpUpElseSkip(agg, h, day, et) ==
  IF et = "complete"
  THEN {IF r.habit_id = h /\ r.day = day
        THEN [r EXCEPT !.completions = @ + 1] ELSE r : r \in agg}
  ELSE {IF r.habit_id = h /\ r.day = day
        THEN [r EXCEPT !.skips = @ + 1] ELSE r : r \in agg}

\* UPDATE daily_agg SET completions = completions + 1 / skips = skips + 1
BumpUp(agg, h, day, et) ==
  IF et = "complete"
  THEN {IF r.habit_id = h /\ r.day = day
        THEN [r EXCEPT !.completions = @ + 1] ELSE r : r \in agg}
  ELSE IF et = "skip"
  THEN {IF r.habit_id = h /\ r.day = day
        THEN [r EXCEPT !.skips = @ + 1] ELSE r : r \in agg}
  ELSE agg

\* variant: the decrement without the CASE
PlainDec(c) == c - 1

\* the clamped decrement of one counter
ClampDec(c) == IF c > 0 THEN c - 1 ELSE 0

\* variant: the two UPDATE statements of the undo swapped
BumpDownSwapped(agg, h, day, et) ==
  IF et = "skip"
  THEN {IF r.habit_id = h /\ r.day = day
        THEN [r EXCEPT !.completions = ClampDec(@)] ELSE r : r \in agg}
  ELSE IF et = "complete"
  THEN {IF r.habit_id = h /\ r.day = day
        THEN [r EXCEPT !.skips = ClampDec(@)] ELSE r : r \in agg}
  ELSE agg

\* variant: the undo's UPDATE followed by a DELETE of a row left with 0/0
BumpDownPrune(agg, h, day, et) ==
  LET down == IF et = "complete"
              THEN {IF r.habit_id = h /\ r.day = day
                    THEN [r EXCEPT !.completions = ClampDec(@)] ELSE r : r \in agg}
              ELSE IF et = "skip"
              THEN {IF r.habit_id = h /\ r.day = day
                    THEN [r EXCEPT !.skips = ClampDec(@)] ELSE r : r \in agg}
              ELSE agg
  IN {r \in down : ~(r.habit_id = h /\ r.day = day /\ r.completions = 0 /\ r.skips = 0)}

\* UPDATE daily_agg SET completions = CASE WHEN completions > 0 THEN
\* completions - 1 ELSE 0 END (resp. skips)
BumpDown(agg, h, day, et) ==
  IF et = "complete"
  THEN {IF r.habit_id = h /\ r.day = day
        THEN [r EXCEPT !.completions = ClampDec(@)] ELSE r : r \in agg}
  ELSE IF et = "skip"
  THEN {IF r.habit_id = h /\ r.day = day
        THEN [r EXCEPT !.skips = ClampDec(@)] ELSE r : r \in agg}
  ELSE agg

\* DELETE FROM habit_logs WHERE id = ?
DeleteLog(logs, id) == {r \in logs : r.id # id}

\* the rows a query "ORDER BY timestamp DESC LIMIT 1" may return: the ORDER BY
\* names no second key, so among rows with the greatest timestamp SQL leaves
\* the choice open (SQLite 3.40 returns the one with the smallest id)
LatestRows(rows) == {r \in rows : \A q \in rows : TextLE(q.timestamp, r.timestamp)}

\* variant: the query without "AND timestamp >= ?"
SelectLastAny(logs, h, cutoff) ==
  LatestRows({r \in logs : r.habit_id = h})

\* SELECT ... WHERE habit_id = ? AND timestamp >= ? ORDER BY timestamp DESC LIMIT 1
SelectLastSince(logs, h, cutoff) ==
  LatestRows({r \in logs : r.habit_id = h /\ TextLE(cutoff, r.timestamp)})

\* SELECT ... WHERE habit_id = ? AND timestamp LIKE ? ORDER BY timestamp DESC LIMIT 1
SelectLastOnDay(logs, h, day) ==
  LatestRows({r \in logs : r.habit_id = h /\ LikePrefix(r.timestamp, day)})

\* ------------------------------------------------------------ bookkeeping
NoCall == [op |-> "none", habit_id |-> None, event_type |-> "", window |-> 0,
           code |-> 0, status |-> "", event_id |-> None, body_id |-> None,
           agg0 |-> {}, statuses |-> {}, rate |-> 0, streaks |-> {}]

NoRow == [id |-> None, habit_id |-> None, event_type |-> "", timestamp |-> <<>>]

IdleConn == [pc |-> "idle", habit_id |-> None, event_type |-> "", ts |-> <<>>,
             row |-> NoRow, logs |-> {}, agg |-> {}, seq |-> 0,
             status |-> "", floored |-> FALSE, raced |-> FALSE]

Init ==
  /\ habit_logs = {}
  /\ daily_agg = {}
  /\ seq = 0
  /\ habits = {}
  /\ habit_seq = 0
  /\ now = StartTime
  /\ last = NoCall
  /\ conn = [p \in Procs |-> IdleConn]
  /\ wlock = None

\* ------------------------------------------------------------------ clock
TicksUsed ==
  ((now - StartTime) \div DaySeconds) + (((now - StartTime) % DaySeconds) \div DefaultWindow)

Tick(d) ==
  /\ TicksUsed < MaxTicks
  /\ now' = now + d
  /\ UNCHANGED <<habit_logs, daily_agg, seq, habits, habit_seq, last, conn, wlock>>

\* ------------------------------------------------- handlers, run serially
\* POST /events: "not habit_id" is true of a missing habit_id (None) and of 0,
\* "not event_type" of a missing or empty event_type; the storage writes succeed
log_event(h, et) ==
  IF h = None \/ et = ""
  THEN /\ last' = [NoCall EXCEPT !.op = "record", !.habit_id = h,
                     !.event_type = et, !.code = 400, !.status = "error"]
       /\ UNCHANGED <<habit_logs, daily_agg, seq, habits, habit_seq, now, conn, wlock>>
  ELSE /\ seq < MaxEvents
       /\ LET timestamp == isoformat(now)
              day == SplitDay(timestamp)
          IN /\ habit_logs' = InsertLog(habit_logs, seq + 1, h, et, timestamp)
             /\ daily_agg' = BumpUp(InsertOrIgnoreAgg(daily_agg, h, day), h, day, et)
             /\ seq' = seq + 1
             /\ last' = [NoCall EXCEPT !.op = "record", !.habit_id = h,
                           !.event_type = et, !.code = 201,
                           !.status = "event_logged", !.event_id = seq + 1,
                           !.agg0 = daily_agg]
       /\ UNCHANGED <<habits, habit_seq, now, conn, wlock>>

\* POST /events/undo with an integer window_seconds
undo_last_event(h, window_seconds) ==
  IF h = None
  THEN /\ last' = [NoCall EXCEPT !.op = "undo", !.habit_id = h,
                     !.window = window_seconds, !.code = 400, !.status = "error"]
       /\ UNCHANGED <<habit_logs, daily_agg, seq, habits, habit_seq, now, conn, wlock>>
  ELSE
  LET cutoff == isoformat(now - window_seconds)
      found == SelectLastSince(habit_logs, h, cutoff)
      call == [NoCall EXCEPT !.op = "undo", !.habit_id = h,
                 !.window = window_seconds]
  IN /\ \/ /\ found = {}
           /\ last' = [call EXCEPT !.code = 404, !.status = "no_recent_event"]
           /\ UNCHANGED <<habit_logs, daily_agg>>
        \/ \E row \in found :
             LET day == SplitDay(row.timestamp)
             IN /\ habit_logs' = DeleteLog(habit_logs, row.id)
                /\ daily_agg' = BumpDown(daily_agg, h, day, row.event_type)
                /\ last' = [call EXCEPT !.code = 200, !.status = "undone",
                              !.event_type = row.event_type,
                              !.event_id = row.id]
     /\ UNCHANGED <<seq, habits, habit_seq, now, conn, wlock>>

\* GET /habit_status_today/<id>
get_habit_status_today(h) ==
  LET today == TodayStr(now)
      found == SelectLastOnDay(habit_logs, h, today)
      call == [NoCall EXCEPT !.op = "status_today", !.habit_id = h, !.code = 200]
  IN /\ \/ /\ found = {}
           /\ last' = [call EXCEPT !.status = "none"]
        \/ \E row \in found : last' = [call EXCEPT !.status = row.event_type]
     /\ UNCHANGED <<habit_logs, daily_agg, seq, habits, habit_seq, now, conn, wlock>>

\* SELECT habit_id, event_type, MAX(timestamp) AS ts ... GROUP BY habit_id:
\* the bare column event_type comes from a row holding the maximum, and SQLite
\* leaves open which one when several do
GroupLatest(logs, today) ==
  LET rows == {r \in logs : LikePrefix(r.timestamp, today)}
      hids == {r.habit_id : r \in rows}
  IN {f \in [hids -> rows] :
        \A hid \in hids : f[hid] \in LatestRows({r \in rows : r.habit_id = hid})}

\* GET /today_status_all
today_status_all ==
  LET today == TodayStr(now)
      call == [NoCall EXCEPT !.op = "status_all", !.code = 200]
  IN /\ \E f \in GroupLatest(habit_logs, today) :
          LET result == {[habit_id |-> hid, status |-> f[hid].event_type,
                          last_time |-> f[hid].timestamp] : hid \in DOMAIN f}
              defaults == {[habit_id |-> r.id, status |-> "none", last_time |-> <<>>] :
                             r \in {q \in habits : q.id \notin DOMAIN f}}
          IN last' = [call EXCEPT !.statuses = result \cup defaults]
     /\ UNCHANGED <<habit_logs, daily_agg, seq, habits, habit_seq, now, conn, wlock>>

\* str.lower() on the habit names in use
Lower(name) == IF name = "Run" THEN "run" ELSE IF name = "Read" THEN "read" ELSE name

\* POST /habits with a non-empty name
create_habit(name) ==
  /\ habit_seq < NumHabits
  /\ IF \E r \in habits : Lower(r.name) = Lower(name)
     THEN /\ last' = [NoCall EXCEPT !.op = "create_habit", !.code = 409]
          /\ UNCHANGED <<habits, habit_seq>>
     ELSE /\ habits' = habits \cup {[id |-> habit_seq + 1, name |-> name,
                                      active |-> 1, archived_at |-> <<>>]}
          /\ habit_seq' = habit_seq + 1
          /\ last' = [NoCall EXCEPT !.op = "create_habit", !.code = 201]
  /\ UNCHANGED <<habit_logs, daily_agg, seq, now, conn, wlock>>

\* a key the JSON body of PUT /habits/<id> does not carry
Missing == "<missing>"

\* the bodies of PUT /habits/<id>: name, active and description each present
\* or not; a name may be blank, active may be any JSON value
UpdateBodies ==
  [name : Names \cup {"", Missing},
   active : {"0", "1", "2", "x", Missing},
   description : {"text", Missing}]

\* int(data.get("active")) is defined on these values and raises on the others
IsInt(v) == v \in {"0", "1", "2"}
IntOf(v) == IF v = "0" THEN 0 ELSE IF v = "1" THEN 1 ELSE 2

\* the UNIQUE index idx_habits_name_unique on habits(name) compares names with
\* the BINARY collation: it refuses a name another row holds letter for letter
NameTaken(rows, h, name) == \E r \in rows : r.id # h /\ r.name = name

\* variant: "active" written without the archived_at that goes with it
update_habit_flag_only(h, data) ==
  LET call == [NoCall EXCEPT !.op = "update_habit", !.habit_id = h]
      existing == {r \in habits : r.id = h}
      has_name == data.name # Missing
      has_active == data.active # Missing
      has_description == data.description # Missing
      active_val == IF IntOf(data.active) # 0 THEN 1 ELSE 0
  IN /\ IF existing = {}
        THEN last' = [call EXCEPT !.code = 404] /\ UNCHANGED habits
        ELSE IF has_name /\ data.name = ""
        THEN last' = [call EXCEPT !.code = 400] /\ UNCHANGED habits
        ELSE IF has_active /\ ~IsInt(data.active)
        THEN last' = [call EXCEPT !.code = 400] /\ UNCHANGED habits
        ELSE IF ~has_name /\ ~has_active /\ ~has_description
        THEN last' = [call EXCEPT !.code = 400] /\ UNCHANGED habits
        ELSE IF has_name /\ NameTaken(habits, h, data.name)
        THEN last' = [call EXCEPT !.code = 500] /\ UNCHANGED habits
        ELSE /\ habits' =
                  {IF r.id # h THEN r
                   ELSE [r EXCEPT
                           !.name = IF has_name THEN data.name ELSE @,
                           !.active = IF has_active THEN active_val ELSE @] :
                   r \in habits}
             /\ last' = [call EXCEPT !.code = 200]
     /\ UNCHANGED <<habit_logs, daily_agg, seq, habit_seq, now, conn, wlock>>

\* PUT /habits/<id>
update_habit(h, data) ==
  LET call == [NoCall EXCEPT !.op = "update_habit", !.habit_id = h]
      existing == {r \in habits : r.id = h}
      has_name == data.name # Missing
      has_active == data.active # Missing
      has_description == data.description # Missing
      active_val == IF IntOf(data.active) # 0 THEN 1 ELSE 0
      archived_at == IF active_val = 0 THEN isoformat(now) ELSE <<>>
  IN /\ IF existing = {}
        THEN last' = [call EXCEPT !.code = 404] /\ UNCHANGED habits
        ELSE IF has_name /\ data.name = ""
        THEN last' = [call EXCEPT !.code = 400] /\ UNCHANGED habits
        ELSE IF has_active /\ ~IsInt(data.active)
        THEN last' = [call EXCEPT !.code = 400] /\ UNCHANGED habits
        ELSE IF ~has_name /\ ~has_active /\ ~has_description
        THEN last' = [call EXCEPT !.code = 400] /\ UNCHANGED habits
        ELSE IF has_name /\ NameTaken(habits, h, data.name)
        THEN last' = [call EXCEPT !.code = 500] /\ UNCHANGED habits
        ELSE /\ habits' =
                  {IF r.id # h THEN r
                   ELSE [r EXCEPT
                           !.name = IF has_name THEN data.name ELSE @,
                           !.active = IF has_active THEN active_val ELSE @,
                           !.archived_at = IF has_active THEN archived_at ELSE @] :
                   r \in habits}
             /\ last' = [call EXCEPT !.code = 200]
     /\ UNCHANGED <<habit_logs, daily_agg, seq, habit_seq, now, conn, wlock>>

\* POST /habits/<id>/archive
archive_habit(h) ==
  /\ habits' = {IF r.id = h
                THEN [r EXCEPT !.active = 0, !.archived_at = isoformat(now)]
                ELSE r : r \in habits}
  /\ last' = [NoCall EXCEPT !.op = "archive_habit", !.habit_id = h,
                !.code = IF \E r \in habits : r.id = h THEN 200 ELSE 404]
  /\ UNCHANGED <<habit_logs, daily_agg, seq, habit_seq, now, conn, wlock>>

\* POST /habits/<id>/unarchive
unarchive_habit(h) ==
  /\ habits' = {IF r.id = h
                THEN [r EXCEPT !.active = 1, !.archived_at = <<>>]
                ELSE r : r \in habits}
  /\ last' = [NoCall EXCEPT !.op = "unarchive_habit", !.habit_id = h,
                !.code = IF \E r \in habits : r.id = h THEN 200 ELSE 404]
  /\ UNCHANGED <<habit_logs, daily_agg, seq, habit_seq, now, conn, wlock>>

\* variant: a delete cascading to the habit's events and buckets
delete_habit_cascade(h) ==
  /\ habits' = {r \in habits : r.id # h}
  /\ habit_logs' = {r \in habit_logs : r.habit_id # h}
  /\ daily_agg' = {r \in daily_agg : r.habit_id # h}
  /\ last' = [NoCall EXCEPT !.op = "delete_habit", !.habit_id = h,
                !.code = IF \E r \in habits : r.id = h THEN 200 ELSE 404]
  /\ UNCHANGED <<seq, habit_seq, now, conn, wlock>>

\* DELETE /habits/<id>
delete_habit(h) ==
  /\ habits' = {r \in habits : r.id # h}
  /\ last' = [NoCall EXCEPT !.op = "delete_habit", !.habit_id = h,
                !.code = IF \E r \in habits : r.id = h THEN 200 ELSE 404]
  /\ UNCHANGED <<habit_logs, daily_agg, seq, habit_seq, now, conn, wlock>>

\* ------------------------------------------------------------- analytics
\* date.isoformat() of the day numbered d, and date.fromisoformat() back
DateText(d) == <<d>>
FromIsoformat(day) == day[1]

\* set(date_list)
Range(date_list) == {date_list[i] : i \in DOMAIN date_list}

\* ORDER BY day: the day texts in ascending text order
RECURSIVE SortDays(_)
SortDays(S) ==
  IF S = {} THEN <<>>
  ELSE LET m == CHOOSE x \in S : \A y \in S : TextLE(x, y)
       IN <<m>> \o SortDays(S \ {m})

\* variant: the loop without "if r['completions'] > 0"
DaysOfEveryRow(agg) ==
  LET hids == {r.habit_id : r \in agg}
  IN [hid \in hids |-> SortDays({r.day : r \in {q \in agg : q.habit_id = hid}})]

\* SELECT habit_id, day, completions FROM daily_agg ORDER BY habit_id, day,
\* and the loop keeping the days with completions > 0 of each habit
days_by_habit(agg) ==
  LET hids == {r.habit_id : r \in {q \in agg : q.completions > 0}}
  IN [hid \in hids |->
        SortDays({r.day : r \in {q \in agg : q.habit_id = hid /\ q.completions > 0}})]

\* the while loop of calculate_current_streak: current steps back one day at a
\* time while its text is in date_set
RECURSIVE StreakLoop(_, _, _)
StreakLoop(date_set, current, streak) ==
  IF DateText(current) \in date_set
  THEN StreakLoop(date_set, current - 1, streak + 1)
  ELSE streak

\* variant: a streak that may end yesterday when today has no entry
CurrentStreakGrace(date_list, today) ==
  IF date_list = <<>> THEN 0
  ELSE IF DateText(today) \in Range(date_list)
  THEN StreakLoop(Range(date_list), today, 0)
  ELSE StreakLoop(Range(date_list), today - 1, 0)

calculate_current_streak(date_list, today) ==
  IF date_list = <<>> THEN 0
  ELSE StreakLoop(Range(date_list), today, 0)

\* the inner while loop of longest_consecutive: nxt steps forward one day at a
\* time while its text is in s
RECURSIVE RunLoop(_, _, _)
RunLoop(s, nxt, length) ==
  IF DateText(nxt) \in s
  THEN RunLoop(s, nxt + 1, length + 1)
  ELSE length

\* the for loop of longest_consecutive over date_list
RECURSIVE LongestLoop(_, _, _)
LongestLoop(date_list, s, longest) ==
  IF date_list = <<>> THEN longest
  ELSE LET curd == FromIsoformat(Head(date_list))
           length == RunLoop(s, curd + 1, 1)
       IN LongestLoop(Tail(date_list), s, IF length > longest THEN length ELSE longest)

\* variant: the run starting at the first day of the list only
LongestFirstRun(date_list) ==
  IF date_list = <<>> THEN 0
  ELSE RunLoop(Range(date_list), FromIsoformat(Head(date_list)) + 1, 1)

longest_consecutive(date_list) ==
  IF date_list = <<>> THEN 0
  ELSE LongestLoop(date_list, Range(date_list), 0)

\* round(x, 1) of x = completes / total_events * 100, as tenths of a percent:
\* the nearest tenth, an exact half going to the even one (for totals up to 24
\* the float quotient rounds as the exact one does)
RoundTenths(completes, total_events) ==
  LET q == (1000 * completes) \div total_events
      r == (1000 * completes) % total_events
  IN IF 2 * r > total_events THEN q + 1
     ELSE IF 2 * r = total_events /\ q % 2 = 1 THEN q + 1
     ELSE q

\* variant: the rate taken over the events of every type in the window
RateOverAll(logs, today) ==
  LET thirty_days_ago == DateText(today - RateWindow)
      rows == {r \in logs : TextLE(thirty_days_ago, SplitDay(r.timestamp))}
      completes == Cardinality({r \in rows : r.event_type = "complete"})
      total_events == Cardinality(rows)
  IN IF total_events > 0 THEN RoundTenths(completes, total_events) ELSE 0

\* SELECT SUM(CASE ...) ... WHERE date(timestamp) >= thirty_days_ago, and the
\* rate computed from the two sums, in tenths of a percent
completion_rate(logs, today) ==
  LET thirty_days_ago == DateText(today - RateWindow)
      rows == {r \in logs : TextLE(thirty_days_ago, SplitDay(r.timestamp))}
      completes == Cardinality({r \in rows : r.event_type = "complete"})
      skips == Cardinality({r \in rows : r.event_type = "skip"})
      total_events == completes + skips
  IN IF total_events > 0 THEN RoundTenths(completes, total_events) ELSE 0

\* GET /analytics/summary: the 30-day completion rate of the response and, per
\* habit of days_by_habit, the list handed to the two streak functions with
\* their results
analytics_summary ==
  LET today == now \div DaySeconds
      dbh == days_by_habit(daily_agg)
  IN /\ last' = [NoCall EXCEPT !.op = "analytics", !.code = 200,
                   !.rate = completion_rate(habit_logs, today),
                   !.streaks = {[habit_id |-> hid, date_list |-> dbh[hid],
                                 current |-> calculate_current_streak(dbh[hid], today),
                                 longest |-> longest_consecutive(dbh[hid])] :
                                hid \in DOMAIN dbh}]
     /\ UNCHANGED <<habit_logs, daily_agg, seq, habits, habit_seq, now, conn, wlock>>

\* -------------------------------------------------- the serial specifications
\* record, undo and the clock
Next ==
  \/ \E d \in Jumps : Tick(d)
  \/ \E h \in HabitIds, et \in EventTypes : log_event(h, et)
  \/ \E h \in HabitIds, w \in Windows : undo_last_event(h, w)

Spec == Init /\ [][Next]_vars

\* the same with the status queries and the habits table
NextStatus ==
  \/ \E d \in Jumps : Tick(d)
  \/ \E h \in HabitIds, et \in EventTypes : log_event(h, et)
  \/ \E h \in HabitIds, w \in Windows : undo_last_event(h, w)
  \/ \E h \in HabitIds : get_habit_status_today(h)
  \/ today_status_all
  \/ \E name \in Names : create_habit(name)

SpecStatus == Init /\ [][NextStatus]_vars

\* the habit_id and event_type a request body may carry: missing (None, "")
\* or 0, a negative integer, or an identifier in use
BodyHabitIds == {None, -1} \cup HabitIds
BodyEventTypes == {""} \cup EventTypes

\* record and undo with any request body
NextBody ==
  \/ \E d \in Jumps : Tick(d)
  \/ \E h \in BodyHabitIds, et \in BodyEventTypes : log_event(h, et)
  \/ \E h \in BodyHabitIds, w \in Windows : undo_last_event(h, w)

SpecBody == Init /\ [][NextBody]_vars

\* the handlers of the habits table, at one clock instant
NextHabits ==
  \/ \E name \in Names : create_habit(name)
  \/ \E h \in HabitIds, data \in UpdateBodies : update_habit(h, data)
  \/ \E h \in HabitIds : archive_habit(h)
  \/ \E h \in HabitIds : unarchive_habit(h)
  \/ \E h \in HabitIds : delete_habit(h)

SpecHabits == Init /\ [][NextHabits]_vars

\* the habit whose events are recorded while the habits table changes, and the
\* bodies of PUT /habits/<id> sent meanwhile: a rename, an archiving, both or
\* neither
FrameHabits == {1}
FrameBodies ==
  {data \in UpdateBodies : /\ data.name \in {"Read", Missing}
                           /\ data.active \in {"0", Missing}
                           /\ data.description = Missing}

\* every handler: the habits table, records and undos, and the queries
NextFrame ==
  \/ \E name \in Names : create_habit(name)
  \/ \E h \in HabitIds, data \in FrameBodies : update_habit(h, data)
  \/ \E h \in HabitIds : archive_habit(h)
  \/ \E h \in HabitIds : unarchive_habit(h)
  \/ \E h \in HabitIds : delete_habit(h)
  \/ \E h \in FrameHabits, et \in EventTypes : log_event(h, et)
  \/ \E h \in FrameHabits : undo_last_event(h, DefaultWindow)
  \/ \E h \in FrameHabits : get_habit_status_today(h)
  \/ today_status_all
  \/ analytics_summary

SpecFrame == Init /\ [][NextFrame]_vars

\* ------------------------------------- analytics over a recorded history
\* The tables as the records of a history leave them: hist lists, in the order
\* recorded, the instant and event_type of each record of habit 1; ids follow
\* AUTOINCREMENT and each day's daily_agg row counts that day's events.
LogsOf(hist) ==
  {[id |-> i, habit_id |-> 1, event_type |-> hist[i][2],
    timestamp |-> isoformat(hist[i][1])] : i \in DOMAIN hist}

AggOf(logs) ==
  {[habit_id |-> 1, day |-> day,
    completions |-> Cardinality({r \in logs : /\ SplitDay(r.timestamp) = day
                                              /\ r.event_type = "complete"}),
    skips |-> Cardinality({r \in logs : /\ SplitDay(r.timestamp) = day
                                        /\ r.event_type = "skip"})] :
   day \in {SplitDay(r.timestamp) : r \in logs}}

StreakDays == 0..(MaxDays - 1)

\* one record at most on each of the days d..t: f[d] is its event_type, "" for none
RECURSIVE HistOf(_, _, _)
HistOf(f, d, t) ==
  IF d > t THEN <<>>
  ELSE (IF f[d] = "" THEN <<>> ELSE << <<d * DaySeconds, f[d]>> >>) \o HistOf(f, d + 1, t)

\* the database on the evening of day t, after any such history of days 0..t
InitStreak ==
  \E t \in StreakDays : \E f \in [0..t -> {"", "complete", "skip"}] :
    LET logs == LogsOf(HistOf(f, 0, t))
    IN /\ habit_logs = logs
       /\ daily_agg = AggOf(logs)
       /\ seq = Cardinality(logs)
       /\ now = t * DaySeconds + StartTime
       /\ habits = {}
       /\ habit_seq = 0
       /\ last = NoCall
       /\ conn = [p \in Procs |-> IdleConn]
       /\ wlock = None

NextStreak == analytics_summary

SpecStreak == InitStreak /\ [][NextStreak]_vars

\* k records of the same instant and event_type
Rep(k, t, et) == [i \in 1..k |-> <<t, et>>]

\* the day analytics is read on: day 0 lies just outside its 30-day window,
\* day 1 is the window's first day
RateToday == RateWindow + 1

\* the database after 'complete' records on day 0 and on day 1 and 'skip' and
\* 'note' records at this instant of day RateToday
InitRate ==
  \E o \in 0..1, c \in 0..MaxCompletes, k \in 0..MaxSkips, n \in 0..2 :
    LET t == RateToday * DaySeconds + StartTime
        logs == LogsOf(Rep(o, StartTime, "complete")
                         \o Rep(c, DaySeconds + StartTime, "complete")
                         \o Rep(k, t, "skip") \o Rep(n, t, "note"))
    IN /\ habit_logs = logs
       /\ daily_agg = AggOf(logs)
       /\ seq = Cardinality(logs)
       /\ now = t
       /\ habits = {}
       /\ habit_seq = 0
       /\ last = NoCall
       /\ conn = [p \in Procs |-> IdleConn]
       /\ wlock = None

\* analytics, and undos of the events just recorded
NextRate ==
  \/ \E w \in Windows : undo_last_event(1, w)
  \/ analytics_summary

SpecRate == InitRate /\ [][NextRate]_vars

\* record, undo, the clock and analytics
NextAnalytics ==
  \/ \E d \in Jumps : Tick(d)
  \/ \E h \in HabitIds, et \in EventTypes : log_event(h, et)
  \/ \E h \in HabitIds, w \in Windows : undo_last_event(h, w)
  \/ analytics_summary

SpecAnalytics == Init /\ [][NextAnalytics]_vars

\* ------------------------------------------- handlers, run concurrently
\* Each request runs on its own connection (get_db_conn).  The sqlite3 module
\* opens a transaction before the first INSERT/UPDATE/DELETE of a connection
\* and not before a SELECT; the first write statement takes the database write
\* lock, which one connection holds at a time; the statements of the
\* transaction work on that connection's view, which commit() publishes as a
\* whole and which is dropped when the connection is discarded uncommitted.
\* A statement that cannot get the lock within busy_timeout raises.
\* The concurrent requests are requests on one habit.
ConcHabits == {1}

InFlight(p) == conn[p].pc # "idle"

Holds(p) == wlock = p

StatementsOf(op) ==
  IF op = "record" THEN {"rec_agg", "rec_bump", "rec_commit"}
  ELSE {"undo_bump", "undo_commit"}

\* log_event up to the first statement: the timestamp is taken on entry
rec_start(p, h, et) ==
  /\ ~InFlight(p)
  /\ seq + Cardinality({q \in Procs : conn[q].pc \in {"rec_insert"} \cup StatementsOf("record")})
       < MaxEvents
  /\ conn' = [conn EXCEPT ![p] = [IdleConn EXCEPT !.pc = "rec_insert",
                 !.habit_id = h, !.event_type = et, !.ts = isoformat(now)]]
  /\ UNCHANGED <<habit_logs, daily_agg, seq, habits, habit_seq, now, last, wlock>>

\* INSERT INTO habit_logs: begins the transaction and takes the write lock
rec_insert(p) ==
  /\ conn[p].pc = "rec_insert"
  /\ wlock = None
  /\ wlock' = p
  /\ conn' = [conn EXCEPT ![p].pc = "rec_agg",
                ![p].logs = InsertLog(habit_logs, seq + 1, conn[p].habit_id,
                                      conn[p].event_type, conn[p].ts),
                ![p].agg = daily_agg,
                ![p].seq = seq + 1,
                ![p].raced = \E q \in Procs \ {p} :
                                /\ conn[q].pc = "rec_insert"
                                /\ conn[q].habit_id = conn[p].habit_id
                                /\ SplitDay(conn[q].ts) = SplitDay(conn[p].ts)]
  /\ UNCHANGED <<habit_logs, daily_agg, seq, habits, habit_seq, now, last>>

\* INSERT OR IGNORE INTO daily_agg
rec_agg(p) ==
  /\ conn[p].pc = "rec_agg"
  /\ Holds(p)
  /\ conn' = [conn EXCEPT ![p].pc = "rec_bump",
                ![p].agg = InsertOrIgnoreAgg(@, conn[p].habit_id, SplitDay(conn[p].ts))]
  /\ UNCHANGED <<habit_logs, daily_agg, seq, habits, habit_seq, now, last, wlock>>

\* UPDATE daily_agg SET ... + 1
rec_bump(p) ==
  /\ conn[p].pc = "rec_bump"
  /\ Holds(p)
  /\ conn' = [conn EXCEPT ![p].pc = "rec_commit",
                ![p].agg = BumpUp(@, conn[p].habit_id, SplitDay(conn[p].ts),
                                  conn[p].event_type)]
  /\ UNCHANGED <<habit_logs, daily_agg, seq, habits, habit_seq, now, last, wlock>>

\* conn.commit(); conn.close(); return 201 "event_logged"
rec_commit(p) ==
  /\ conn[p].pc = "rec_commit"
  /\ Holds(p)
  /\ habit_logs' = conn[p].logs
  /\ daily_agg' = conn[p].agg
  /\ seq' = conn[p].seq
  /\ wlock' = None
  /\ conn' = [conn EXCEPT ![p] = [IdleConn EXCEPT !.status = "event_logged",
                                                 !.raced = conn[p].raced]]
  /\ UNCHANGED <<habits, habit_seq, now, last>>

\* a statement of log_event raises (lock wait timed out, or the storage failed
\* inside the transaction): except-branch, the connection is dropped
\* uncommitted, and the handler still returns 201
rec_raise(p) ==
  /\ \/ conn[p].pc = "rec_insert" /\ wlock \notin {None, p}
     \/ conn[p].pc \in StatementsOf("record") /\ Holds(p)
  /\ wlock' = IF Holds(p) THEN None ELSE wlock
  /\ conn' = [conn EXCEPT ![p] = [IdleConn EXCEPT !.status = "event_logged"]]
  /\ UNCHANGED <<habit_logs, daily_agg, seq, habits, habit_seq, now, last>>

\* undo_last_event up to its SELECT, which runs outside any transaction
undo_start(p, h, window_seconds) ==
  /\ ~InFlight(p)
  /\ LET cutoff == isoformat(now - window_seconds)
         found == SelectLastSince(habit_logs, h, cutoff)
     IN \/ /\ found = {}
           /\ conn' = [conn EXCEPT ![p] = [IdleConn EXCEPT !.status = "no_recent_event"]]
        \/ \E row \in found :
             conn' = [conn EXCEPT ![p] = [IdleConn EXCEPT !.pc = "undo_delete",
                        !.habit_id = h, !.row = row]]
  /\ UNCHANGED <<habit_logs, daily_agg, seq, habits, habit_seq, now, last, wlock>>

\* DELETE FROM habit_logs WHERE id = ?: begins the transaction
undo_delete(p) ==
  /\ conn[p].pc = "undo_delete"
  /\ wlock = None
  /\ wlock' = p
  /\ conn' = [conn EXCEPT ![p].pc = "undo_bump",
                ![p].logs = DeleteLog(habit_logs, conn[p].row.id),
                ![p].agg = daily_agg,
                ![p].seq = seq]
  /\ UNCHANGED <<habit_logs, daily_agg, seq, habits, habit_seq, now, last>>

\* the counter the undo's UPDATE is about to decrement is already 0
AtFloor(agg, h, day, et) ==
  \E r \in agg : /\ r.habit_id = h /\ r.day = day
                 /\ \/ et = "complete" /\ r.completions = 0
                    \/ et = "skip" /\ r.skips = 0

\* UPDATE daily_agg SET ... CASE WHEN ... > 0 THEN ... - 1 ELSE 0 END
undo_bump(p) ==
  /\ conn[p].pc = "undo_bump"
  /\ Holds(p)
  /\ LET row == conn[p].row
         day == SplitDay(row.timestamp)
     IN conn' = [conn EXCEPT ![p].pc = "undo_commit",
                   ![p].agg = BumpDown(@, conn[p].habit_id, day, row.event_type),
                   ![p].floored = AtFloor(conn[p].agg, conn[p].habit_id, day,
                                          row.event_type)]
  /\ UNCHANGED <<habit_logs, daily_agg, seq, habits, habit_seq, now, last, wlock>>

\* conn.commit(); conn.close(); return 200 "undone"
undo_commit(p) ==
  /\ conn[p].pc = "undo_commit"
  /\ Holds(p)
  /\ habit_logs' = conn[p].logs
  /\ daily_agg' = conn[p].agg
  /\ seq' = conn[p].seq
  /\ wlock' = None
  /\ conn' = [conn EXCEPT ![p] = [IdleConn EXCEPT !.status = "undone",
                                                 !.floored = conn[p].floored]]
  /\ UNCHANGED <<habits, habit_seq, now, last>>

\* a statement of undo_last_event raises: nothing catches it, the request
\* ends 500 and the connection is dropped uncommitted
undo_raise(p) ==
  /\ \/ conn[p].pc = "undo_delete" /\ wlock \notin {None, p}
     \/ conn[p].pc \in StatementsOf("undo") /\ Holds(p)
  /\ wlock' = IF Holds(p) THEN None ELSE wlock
  /\ conn' = [conn EXCEPT ![p] = [IdleConn EXCEPT !.status = "error"]]
  /\ UNCHANGED <<habit_logs, daily_agg, seq, habits, habit_seq, now, last>>

RecordSteps(p) ==
  \/ \E h \in ConcHabits, et \in EventTypes : rec_start(p, h, et)
  \/ rec_insert(p)
  \/ rec_agg(p)
  \/ rec_bump(p)
  \/ rec_commit(p)
  \/ rec_raise(p)

UndoSteps(p) ==
  \/ \E h \in ConcHabits, w \in Windows : undo_start(p, h, w)
  \/ undo_delete(p)
  \/ undo_bump(p)
  \/ undo_commit(p)
  \/ undo_raise(p)

\* concurrent record and undo requests of one burst: they all read the same
\* clock instant
NextConc ==
  \/ \E p \in Procs : RecordSteps(p)
  \/ \E p \in Procs : UndoSteps(p)

SpecConc == Init /\ [][NextConc]_vars

\* concurrent record requests alone
NextRecord ==
  \/ \E d \in Jumps : Tick(d)
  \/ \E p \in Procs : RecordSteps(p)

SpecRecord == Init /\ [][NextRecord]_vars

\* ===================================================================== claims
\* the instant a timestamp text denotes, in seconds
SecondsOf(ts) == ts[1] * DaySeconds + ts[2]

\* the UTC day number a timestamp falls on
DayOf(ts) == SecondsOf(ts) \div DaySeconds

\* the day numbers the clock can reach
DayNumbers == 0..(MaxTicks + 1)

EventsOn(logs, h, d, et) ==
  {r \in logs : r.habit_id = h /\ DayOf(r.timestamp) = d /\ r.event_type = et}

RowsOf(agg, h, d) == {r \in agg : r.habit_id = h /\ r.day = <<d>>}

\* r is the newer of the two events: later timestamp, then larger identifier
NotOlder(r, q) ==
  \/ SecondsOf(r.timestamp) > SecondsOf(q.timestamp)
  \/ SecondsOf(r.timestamp) = SecondsOf(q.timestamp) /\ r.id >= q.id

Newest(rows) == CHOOSE r \in rows : \A q \in rows : NotOlder(r, q)

\* the step is one run of the handler named; the clock stands still in it
RecordStep == last'.op = "record" /\ seq' = seq + 1
UndoStep == last'.op = "undo" /\ now' = now /\ seq' = seq
StatusStep == last'.op = "status_today" /\ now' = now /\ habit_logs' = habit_logs
StatusAllStep == last'.op = "status_all" /\ now' = now /\ habit_logs' = habit_logs

\* the events of habit h no older than window_seconds at the instant t
InWindow(logs, h, t, window_seconds) ==
  {r \in logs : r.habit_id = h /\ SecondsOf(r.timestamp) >= t - window_seconds}

\* C1: after any serial sequence of record and undo calls, for every habit and
\* day the daily_agg row's completions is the number of 'complete' events of
\* that habit on that day and its skips the number of 'skip' events, and a
\* (habit, day) without a row has no such event.
C1_AggregateConsistency ==
  /\ \A r \in daily_agg : r.habit_id \in HabitIds /\ r.day \in {<<d>> : d \in DayNumbers}
  /\ \A h \in HabitIds, d \in DayNumbers :
       LET c == Cardinality(EventsOn(habit_logs, h, d, "complete"))
           k == Cardinality(EventsOn(habit_logs, h, d, "skip"))
       IN /\ RowsOf(daily_agg, h, d) = {} => c = 0 /\ k = 0
          /\ \A r \in RowsOf(daily_agg, h, d) : r.completions = c /\ r.skips = k

\* C1 witness: a 'complete' event has just been undone and another one of the
\* same habit is still counted.
C1_Witness ==
  /\ last.op = "undo" /\ last.status = "undone" /\ last.event_type = "complete"
  /\ \E r \in daily_agg : r.habit_id = last.habit_id /\ r.completions = 1

\* C2, as claimed: record(h, complete) followed at once by undo(h, 60) deletes
\* the event the record created, returns that event's identifier, and leaves
\* daily_agg the very set of rows it was before the record.
C2_RoundTrip ==
  [][(/\ last.op = "record" /\ last.event_type = "complete"
      /\ \E r \in habit_logs : r.id = last.event_id /\ r.timestamp = isoformat(now)
      /\ UndoStep
      /\ last'.habit_id = last.habit_id /\ last'.window = DefaultWindow)
     => (/\ last'.status = "undone"
         /\ last'.event_id = last.event_id
         /\ last'.body_id = last.event_id
         /\ habit_logs' = habit_logs \ {r \in habit_logs : r.id = last.event_id}
         /\ daily_agg' = last.agg0)]_vars

\* C3: an undo of habit h at a moment when h has no event with timestamp
\* >= now - window_seconds answers "no_recent_event" and leaves habit_logs and
\* daily_agg as they were.
C3_UndoNothing ==
  [][(UndoStep /\ InWindow(habit_logs, last'.habit_id, now, last'.window) = {})
     => (/\ last'.status = "no_recent_event" /\ last'.code = 404
         /\ habit_logs' = habit_logs
         /\ daily_agg' = daily_agg)]_vars

\* C3 witness: an undo answered "no_recent_event" while the habit still has an
\* event, one older than the window.
C3_Witness ==
  /\ last.op = "undo" /\ last.status = "no_recent_event" /\ last.window = DefaultWindow
  /\ \E r \in habit_logs : r.habit_id = last.habit_id
  /\ \E r \in daily_agg : r.habit_id = last.habit_id /\ r.completions + r.skips > 0

\* the counters of (h, d), 0/0 without a row
CountersOf(agg, h, d) ==
  IF RowsOf(agg, h, d) = {} THEN <<0, 0>>
  ELSE LET r == CHOOSE x \in RowsOf(agg, h, d) : TRUE IN <<r.completions, r.skips>>

\* C4, as claimed: every change of the committed tables pairs the log change
\* of one call with its counter change: in each step the number of 'complete'
\* (resp. 'skip') events of a (habit, day) and its counter move by the same
\* amount.
C4_AtomicVisibility ==
  [][\A h \in HabitIds, d \in DayNumbers :
       /\ Cardinality(EventsOn(habit_logs', h, d, "complete"))
            - Cardinality(EventsOn(habit_logs, h, d, "complete"))
          = CountersOf(daily_agg', h, d)[1] - CountersOf(daily_agg, h, d)[1]
       /\ Cardinality(EventsOn(habit_logs', h, d, "skip"))
            - Cardinality(EventsOn(habit_logs, h, d, "skip"))
          = CountersOf(daily_agg', h, d)[2] - CountersOf(daily_agg, h, d)[2]]_vars

\* C5: once concurrent record calls have all finished, every (habit, day) with
\* an event has exactly one daily_agg row, and its counters are the numbers of
\* committed 'complete' and 'skip' events.
C5_NoLostUpdate ==
  (\A p \in Procs : ~InFlight(p)) =>
    \A h \in HabitIds, d \in DayNumbers :
      LET c == Cardinality(EventsOn(habit_logs, h, d, "complete"))
          k == Cardinality(EventsOn(habit_logs, h, d, "skip"))
      IN /\ Cardinality(RowsOf(daily_agg, h, d)) <= 1
         /\ c + k > 0 => Cardinality(RowsOf(daily_agg, h, d)) = 1
         /\ \A r \in RowsOf(daily_agg, h, d) : r.completions = c /\ r.skips = k

\* C5 witness: a record took the write lock while another record of the same
\* habit and day was already under way, and both have committed.
C5_Witness ==
  /\ \A p \in Procs : ~InFlight(p)
  /\ \E p \in Procs : conn[p].raced /\ conn[p].status = "event_logged"
  /\ \E r \in daily_agg : r.completions = 2

\* C6, as claimed: a successful undo deletes exactly the newest event of the
\* habit within the window, newest by timestamp and among equal timestamps by
\* identifier.
C6_UndoTarget ==
  [][(UndoStep /\ last'.status = "undone")
     => LET cands == InWindow(habit_logs, last'.habit_id, now, last'.window)
        IN /\ cands # {}
           /\ last'.event_id = Newest(cands).id
           /\ habit_logs' = habit_logs \ {Newest(cands)}]_vars

\* C7, as claimed: latest_status answers the event_type of the habit's newest
\* event of the day (largest timestamp, then largest identifier), "none"
\* without one.
C7_TieBreak ==
  [][StatusStep
     => LET rows == {r \in habit_logs : /\ r.habit_id = last'.habit_id
                                        /\ DayOf(r.timestamp) = now \div DaySeconds}
        IN last'.status = IF rows = {} THEN "none" ELSE Newest(rows).event_type]_vars

\* C8, as claimed: the status map has, for every habit of the habits table,
\* the event_type and timestamp of that habit's newest event of the day, or
\* "none" and no last_time.
C8_StatusAll ==
  [][StatusAllStep
     => \A hb \in habits :
          LET rows == {r \in habit_logs : /\ r.habit_id = hb.id
                                          /\ DayOf(r.timestamp) = now \div DaySeconds}
              mine == {e \in last'.statuses : e.habit_id = hb.id}
          IN /\ Cardinality(mine) = 1
             /\ \A e \in mine :
                  IF rows = {}
                  THEN e.status = "none" /\ e.last_time = <<>>
                  ELSE /\ e.status = Newest(rows).event_type
                       /\ e.last_time = Newest(rows).timestamp]_vars

\* C9: under any interleaving of record and undo, no counter is ever negative,
\* in the committed rows or in the rows of an open transaction.
C9_ZeroFloor ==
  /\ \A r \in daily_agg : r.completions >= 0 /\ r.skips >= 0
  /\ \A p \in Procs : \A r \in conn[p].agg : r.completions >= 0 /\ r.skips >= 0

\* C9 witness: an undo has applied its decrement to a counter that was
\* already 0, and the counter is 0.
C9_Witness ==
  \E p \in Procs :
    /\ conn[p].pc = "undo_commit" /\ conn[p].floored
    /\ \E r \in conn[p].agg :
         /\ r.habit_id = conn[p].habit_id /\ r.day = SplitDay(conn[p].row.timestamp)
         /\ IF conn[p].row.event_type = "complete" THEN r.completions = 0 ELSE r.skips = 0

\* C10: recording an event whose type is neither 'complete' nor 'skip' adds
\* that event to habit_logs and changes no counter (a row it creates has 0/0);
\* undoing such an event removes it and changes no row.
C10_OtherTypes ==
  [][/\ (RecordStep /\ last'.event_type \notin {"complete", "skip"})
        => /\ \E r \in habit_logs' \ habit_logs :
                /\ habit_logs' = habit_logs \cup {r}
                /\ r.id = last'.event_id /\ r.event_type = last'.event_type
           /\ daily_agg \subseteq daily_agg'
           /\ \A r \in daily_agg' \ daily_agg : r.completions = 0 /\ r.skips = 0
     /\ (UndoStep /\ last'.status = "undone"
            /\ last'.event_type \notin {"complete", "skip"})
        => /\ \E r \in habit_logs :
                /\ r.id = last'.event_id /\ r.event_type = last'.event_type
                /\ habit_logs' = habit_logs \ {r}
           /\ daily_agg' = daily_agg]_vars

\* C10 witness: a 'note' event has been recorded and undone beside a counted
\* event.
C10_Witness ==
  /\ last.op = "undo" /\ last.status = "undone" /\ last.event_type = "note"
  /\ \E r \in daily_agg : r.completions + r.skips > 0

\* C11, as claimed: a record call answers "event_logged" only in a step that
\* commits its event to habit_logs together with the counter update; a call
\* whose storage write fails reports a failure.
C11_FailureSurfaced ==
  [][\A p \in Procs :
       (/\ conn[p].pc \in {"rec_insert"} \cup StatementsOf("record")
        /\ conn'[p].pc = "idle" /\ conn'[p].status = "event_logged")
       => /\ \E r \in habit_logs' \ habit_logs :
               /\ r.habit_id = conn[p].habit_id
               /\ r.event_type = conn[p].event_type
               /\ r.timestamp = conn[p].ts
          /\ daily_agg' = conn[p].agg]_vars

\* the step is one run of log_event (resp. undo_last_event) to its response
RecordCall == last'.op = "record" /\ now' = now
UndoCall == last'.op = "undo" /\ now' = now

\* C12, as claimed: a record whose habit_id is missing or not positive, or
\* whose event_type is missing, and an undo whose habit_id is missing, is
\* answered with a validation error and leaves habit_logs and daily_agg as
\* they were; a record with a positive habit_id of no existing habit is stored.
C12_Validation ==
  [][/\ (RecordCall /\ (last'.habit_id <= 0 \/ last'.event_type = ""))
        => /\ last'.code = 400
           /\ habit_logs' = habit_logs /\ daily_agg' = daily_agg
     /\ (UndoCall /\ last'.habit_id = None)
        => /\ last'.code = 400
           /\ habit_logs' = habit_logs /\ daily_agg' = daily_agg
     /\ (RecordCall /\ last'.habit_id > 0 /\ last'.event_type # ""
            /\ (\A r \in habits : r.id # last'.habit_id) /\ seq' # seq)
        => /\ last'.code = 201
           /\ \E r \in habit_logs' \ habit_logs :
                r.habit_id = last'.habit_id /\ r.event_type = last'.event_type]_vars

\* the step is one run of analytics_summary
AnalyticsStep == last'.op = "analytics" /\ now' = now /\ habit_logs' = habit_logs

\* the day numbers of a list of day texts
DaysIn(date_list) == {FromIsoformat(date_list[i]) : i \in DOMAIN date_list}

\* today, today-1, ..., today-(k-1) are all in S
BackRun(S, today, k) == \A i \in 0..(k - 1) : (today - i) \in S

\* C13: calculate_current_streak returns the largest k >= 0 such that today,
\* today-1, ..., today-(k-1) are all in the set of days S it is handed; it
\* returns 0 whenever today is not in S, and 0 for the empty list.
C13_CurrentStreak ==
  [][AnalyticsStep
     => LET today == now \div DaySeconds
        IN /\ calculate_current_streak(<<>>, today) = 0
           /\ \A e \in last'.streaks :
                LET S == DaysIn(e.date_list)
                IN /\ e.current >= 0
                   /\ BackRun(S, today, e.current)
                   /\ ~BackRun(S, today, e.current + 1)
                   /\ today \notin S => e.current = 0]_vars

\* C13 witness: the streak of the days today-4, today-3, today-2 and today,
\* without today-1, has been computed as 1.
C13_Witness ==
  /\ last.op = "analytics"
  /\ \E e \in last.streaks :
       LET today == now \div DaySeconds
       IN /\ DaysIn(e.date_list) = {today - 4, today - 3, today - 2, today}
          /\ e.current = 1

\* the days a..b are all in S
IsRun(S, a, b) == \A d \in a..b : d \in S

\* the length of the longest run of consecutive days in S, 0 for the empty set
MaxRun(S) ==
  IF S = {} THEN 0
  ELSE CHOOSE n \in 1..Cardinality(S) :
         /\ \E a \in S : IsRun(S, a, a + n - 1)
         /\ \A a \in S : ~IsRun(S, a, a + n)

\* one ascending pass over the days: run counts the current run, it starts
\* again at 1 after a gap, best keeps the greatest count seen
RECURSIVE SinglePass(_, _, _, _)
SinglePass(S, prev, run, best) ==
  IF S = {} THEN best
  ELSE LET d == CHOOSE x \in S : \A y \in S : x <= y
           r == IF d = prev + 1 THEN run + 1 ELSE 1
       IN SinglePass(S \ {d}, d, r, IF r > best THEN r ELSE best)

\* C14: longest_consecutive returns the length of the longest run of
\* consecutive days in the set it is handed, 0 for the empty list, and the same
\* number as a single ascending pass that resets its counter at every gap.
C14_LongestStreak ==
  [][AnalyticsStep
     => /\ longest_consecutive(<<>>) = 0
        /\ \A e \in last'.streaks :
             LET S == DaysIn(e.date_list)
             IN /\ e.longest = MaxRun(S)
                /\ e.longest = SinglePass(S, -2, 0, 0)]_vars

\* C14 witness: the longest streak of two runs of days separated by a gap, the
\* longer one first, has been computed as the longer run's length.
C14_Witness ==
  /\ last.op = "analytics"
  /\ \E e \in last.streaks :
       /\ DaysIn(e.date_list) = {0, 1, 2, 4}
       /\ e.longest = 3

\* the events of the given type still in the log whose day lies in
\* [today - 29, today]
InRateWindow(logs, today, et) ==
  {r \in logs : /\ r.event_type = et
                /\ DayOf(r.timestamp) >= today - RateWindow
                /\ DayOf(r.timestamp) <= today}

C16_ConcurrentUndos ==
  /\ [][\A p \in Procs :
          (conn[p].pc = "undo_commit" /\ conn'[p].pc = "idle"
             /\ conn'[p].status = "undone")
          => /\ conn[p].row \in habit_logs
             /\ habit_logs' = habit_logs \ {conn[p].row}]_vars
  /\ []((\A p \in Procs : ~InFlight(p))
         => \A h \in HabitIds, d \in DayNumbers :
              \A r \in RowsOf(daily_agg, h, d) :
                /\ r.completions = Cardinality(EventsOn(habit_logs, h, d, "complete"))
                /\ r.skips = Cardinality(EventsOn(habit_logs, h, d, "skip")))

\* the days analytics handed to the streak functions for habit h
FedDays(streaks, h) ==
  UNION {DaysIn(e.date_list) : e \in {x \in streaks : x.habit_id = h}}

\* C17: after any sequence of record and undo calls, the days analytics hands
\* to the streak functions for a habit are exactly the days on which the habit
\* has a 'complete' event still in the log; a day with skips only, or whose
\* completions were all undone, is not among them.
C17_StreakInput ==
  [][AnalyticsStep
     => /\ \A e \in last'.streaks : e.habit_id \in HabitIds /\ e.date_list # <<>>
        /\ \A h \in HabitIds :
             FedDays(last'.streaks, h)
               = {d \in DayNumbers : EventsOn(habit_logs, h, d, "complete") # {}}]_vars

\* C17 witness: analytics has run for a habit that has a day with a counted
\* completion and a day whose row counts no completion (skips only, or all
\* completions undone).
C17_Witness ==
  /\ last.op = "analytics"
  /\ \E e \in last.streaks : \E r \in daily_agg :
       /\ r.habit_id = e.habit_id /\ r.completions = 0
       /\ e.date_list # <<>>
       /\ FromIsoformat(r.day) \notin DaysIn(e.date_list)

\* the handlers of the habits table and the read-only queries
HabitOps == {"create_habit", "update_habit", "archive_habit", "unarchive_habit",
             "delete_habit"}
ReadOps == {"status_today", "status_all", "analytics"}

\* C18: an event of habit_logs is never modified, only an undo removes one,
\* and every habit operation (create, update, archive, unarchive, delete) and
\* every read leaves habit_logs and daily_agg unchanged, so a deleted habit's
\* events and buckets stay.
C18_EventImmutability ==
  [][/\ \A r \in habit_logs, q \in habit_logs' : q.id = r.id => q = r
     /\ (habit_logs \ habit_logs' # {})
          => /\ last'.op = "undo" /\ last'.status = "undone"
             /\ habit_logs \ habit_logs' = {r \in habit_logs : r.id = last'.event_id}
     /\ (last'.op \in HabitOps \cup ReadOps /\ now' = now)
          => habit_logs' = habit_logs /\ daily_agg' = daily_agg]_vars

\* C18 witness: a habit has just been deleted whose events and bucket are in
\* the tables.
C18_Witness ==
  /\ last.op = "delete_habit" /\ last.code = 200
  /\ \A r \in habits : r.id # last.habit_id
  /\ \E r \in habit_logs : r.habit_id = last.habit_id
  /\ \E r \in daily_agg : r.habit_id = last.habit_id /\ r.completions > 0

\* the (habit, day) keys of the rows of daily_agg
KeysOf(agg) == {<<r.habit_id, r.day>> : r \in agg}

\* C19: a record of an event of (habit, day) leaves a daily_agg row for it,
\* creating the row if it is the first; a row appears in no other way; there
\* is at most one row per (habit, day); and a row, once there, is there in
\* every later state, also after an undo has brought both counters to zero.
C19_BucketLifecycle ==
  [][/\ RecordStep
          => /\ <<last'.habit_id, TodayStr(now)>> \in KeysOf(daily_agg')
             /\ KeysOf(daily_agg') = KeysOf(daily_agg) \cup {<<last'.habit_id, TodayStr(now)>>}
     /\ ~RecordStep => KeysOf(daily_agg') = KeysOf(daily_agg)
     /\ KeysOf(daily_agg) \subseteq KeysOf(daily_agg')
     /\ Cardinality(KeysOf(daily_agg')) = Cardinality(daily_agg')]_vars

\* C19 witness: an undo has brought both counters of a row to zero and the row
\* is in daily_agg, with no event of its habit left.
C19_Witness ==
  /\ last.op = "undo" /\ last.status = "undone" /\ last.event_type \in {"complete", "skip"}
  /\ \E r \in daily_agg : r.habit_id = last.habit_id /\ r.completions = 0 /\ r.skips = 0
  /\ \A r \in habit_logs : r.habit_id # last.habit_id

\* C20, as claimed: in every state reached by create_habit, update_habit and
\* delete_habit calls, no two habits have names that are equal when letter
\* case is ignored.
C20_NameUniqueness ==
  \A r \in habits, q \in habits : r.id # q.id => Lower(r.name) # Lower(q.name)

\* C21: in every state reached by create_habit, update_habit, archive_habit
\* and unarchive_habit calls (and deletes), a habit has active = 0 if and only
\* if its archived_at is not null, and active is 0 or 1.
C21_ArchiveFlag ==
  \A r \in habits :
    /\ r.active \in {0, 1}
    /\ (r.active = 0) <=> (r.archived_at # <<>>)

\* C21 witness: a PUT carrying "active" has just archived a habit, beside a
\* habit that is active with no archived_at.
C21_Witness ==
  /\ last.op = "update_habit" /\ last.code = 200
  /\ \E r \in habits : /\ r.id = last.habit_id
                        /\ r.active = 0 /\ r.archived_at = isoformat(now)
  /\ \E r \in habits : r.id # last.habit_id /\ r.active = 1 /\ r.archived_at = <<>>
====
